---- MODULE Spec2Model ----
(***************************************************************************)
(* The baseline cache of app.py: the process-wide dictionary               *)
(* TEMP_FILE_CACHE, the temporary files behind it, the two request         *)
(* handlers compress_initial (/compress-initial) and adjust_and_download   *)
(* (/adjust-and-download), and the background thread cleanup_expired_files.*)
(*                                                                         *)
(* Handlers run on concurrent threads and share the dictionary and the     *)
(* file system with the sweeper; no lock is taken anywhere in app.py, so a *)
(* thread switch may fall between any two statements.  Each action below   *)
(* is one run of statements that touches the shared state at one point.    *)
(*                                                                         *)
(* Names produced by uuid.uuid4, tempfile.NamedTemporaryFile and           *)
(* tempfile.mktemp are random; they are modelled as fresh: the names of    *)
(* call c are built from c and never coincide with another call's.         *)
(* Time is the value of time.time(), in seconds, on a clock that advances  *)
(* in steps of the expiration time, so that an entry is seen at the ages   *)
(* 0, CACHE_EXPIRATION_SECONDS (not yet expired) and beyond (expired).     *)
(***************************************************************************)
EXTENDS Integers, Sequences, FiniteSets, TLC

\* ---- bounds of the model
NumCreate == 2
NumDerive == 2
MaxTicks == 2

\* ---- constants of app.py
CACHE_EXPIRATION_SECONDS == 3600
SLEEP_SECONDS == 600
DEFAULT_RESOLUTION == 300
NoId == 0

ClockStep == CACHE_EXPIRATION_SECONDS
MaxTime == MaxTicks * ClockStep

Creates == 1..NumCreate
Derives == 1..NumDerive

\* uuid.uuid4() of call c, and the ids a client may send
FileId(c) == c
Ids == {FileId(c) : c \in Creates}
RequestIds == Ids \cup {NoId}

\* the temporary names of a call
OriginalPath(c) == <<"orig", c>>
BaselinePath(c) == <<"base", c>>
AdjustedPath(d) == <<"adj", d>>
NoPath == <<"none", 0>>

VARIABLES
    TEMP_FILE_CACHE,  \* the dict, in insertion order: <<[file_id, path, timestamp], ...>>
    files,            \* the paths that exist on disk
    now,              \* time.time()
    ci_pc, ci_resp, ci_exc,                         \* compress_initial calls
    ad_pc, ad_file_id, ad_quality, ad_baseline_path,
    ad_resp, ad_download_name,                      \* adjust_and_download calls
    sw_pc, sw_now, sw_wake_at, sw_scan_size, sw_expired_ids, sw_exc,  \* the sweeper
    ev,                                             \* the eviction step applied on its own
    gr                                              \* get_gs_resolution called on its own

ci_vars == <<ci_pc, ci_resp, ci_exc>>
ad_vars == <<ad_pc, ad_file_id, ad_quality, ad_baseline_path, ad_resp, ad_download_name>>
sw_vars == <<sw_pc, sw_now, sw_wake_at, sw_scan_size, sw_expired_ids, sw_exc>>
vars == <<TEMP_FILE_CACHE, files, now, ci_vars, ad_vars, sw_vars, ev, gr>>

\* ---- the dict operations used by app.py
Keys(cache) == {cache[i].file_id : i \in DOMAIN cache}

Has(cache, id) == id \in Keys(cache)

Get(cache, id) == cache[CHOOSE i \in DOMAIN cache : cache[i].file_id = id]

Entry(id, path, t) == [file_id |-> id, path |-> path, timestamp |-> t]

Put(cache, id, path, t) ==
    IF Has(cache, id)
    THEN [i \in DOMAIN cache |->
            IF cache[i].file_id = id THEN Entry(id, path, t) ELSE cache[i]]
    ELSE Append(cache, Entry(id, path, t))

Del(cache, id) ==
    LET Keep(e) == e.file_id # id IN SelectSeq(cache, Keep)

\* ---- get_gs_resolution
\* the values request.get_json() can hand over as data.get('quality', '7'):
\* a JSON integer, a JSON number with a fraction (val counts halves), a
\* number too large for a float (json.loads gives inf for 1e999 and for
\* Infinity), NaN, true/false, a string that int() parses (val is what it
\* parses to), any other string, null, and an array or object
QInt(n) == [kind |-> "int", val |-> n]
QText == [kind |-> "text", val |-> 0]
QFloat(halves) == [kind |-> "float", val |-> halves]
QInf == [kind |-> "inf", val |-> 0]
QNan == [kind |-> "nan", val |-> 0]
QBool(b) == [kind |-> "bool", val |-> b]
QStr(n) == [kind |-> "str", val |-> n]
QNull == [kind |-> "null", val |-> 0]
QList == [kind |-> "list", val |-> 0]
NoQuality == [kind |-> "unset", val |-> 0]
\* the key is missing: data.get supplies the default '7'
DEFAULT_QUALITY == 7
QMissing == QStr(DEFAULT_QUALITY)

\* float.__int__ truncates toward zero
Trunc(halves) == IF halves >= 0 THEN halves \div 2 ELSE -((-halves) \div 2)

\* int(quality_value)
IntOf(qv) ==
    CASE qv.kind \in {"int", "bool", "str"} -> [exc |-> "none", val |-> qv.val]
      [] qv.kind = "float" -> [exc |-> "none", val |-> Trunc(qv.val)]
      [] qv.kind = "inf" -> [exc |-> "OverflowError", val |-> 0]
      [] qv.kind \in {"nan", "text"} -> [exc |-> "ValueError", val |-> 0]
      [] OTHER -> [exc |-> "TypeError", val |-> 0]

dpi_map ==
    (1 :> 72) @@ (2 :> 96) @@ (3 :> 120) @@ (4 :> 150) @@ (5 :> 200) @@
    (6 :> 250) @@ (7 :> 300) @@ (8 :> 400) @@ (9 :> 500) @@ (10 :> 600)

\* dpi_map.get(quality, 300)
DpiGet(quality) ==
    IF quality \in DOMAIN dpi_map THEN dpi_map[quality] ELSE DEFAULT_RESOLUTION

\* the call: what it raises, or what it returns
GsResolution(quality_value) ==
    LET quality == IntOf(quality_value)
    IN IF quality.exc \in {"ValueError", "TypeError"}
       THEN [exc |-> "none", val |-> DEFAULT_RESOLUTION]
       ELSE IF quality.exc # "none"
            THEN [exc |-> quality.exc, val |-> 0]
            ELSE [exc |-> "none", val |-> DpiGet(quality.val)]

get_gs_resolution(quality_value) == GsResolution(quality_value).val

Qualities == {QInt(1), QInt(10)}

NoCall == [pc |-> "off", quality_value |-> NoQuality, exc |-> "none", val |-> 0]

\* ---- run_ghostscript: what the subprocess may end with, given its input
GsOutcomes(fs, input_path) ==
    IF input_path \in fs
    THEN {"ok", "CalledProcessError", "TimeoutExpired"}
    ELSE {"CalledProcessError"}

\* a failed run may leave a partly written output file behind, or none
GsLeftovers(output_path) == {{}, {output_path}}

\* ---- the finally blocks
\* (mutant: the cleanup is skipped)
FinallyOriginal_Skipped(fs, c) == fs

FinallyOriginal(fs, c) == fs \ {OriginalPath(c)}

\* (mutant: the cleanup is skipped)
FinallyAdjusted_Skipped(fs, d) == fs

\* (mutant: the cleanup removes every call's output)
FinallyAdjusted_AllOutputs(fs, d) == fs \ {AdjustedPath(x) : x \in Derives}

\* (mutant: the cleanup removes the baseline the call worked on as well)
FinallyAdjusted_WithBaseline(fs, d) ==
    fs \ {AdjustedPath(d), BaselinePath(ad_file_id[d])}

FinallyAdjusted(fs, d) == fs \ {AdjustedPath(d)}

\* ---- the sweeper's test and the two halves of its eviction step
\* (mutant: an entry of age exactly CACHE_EXPIRATION_SECONDS counts as expired)
Expired_AtBoundary(e, t) == t - e.timestamp >= CACHE_EXPIRATION_SECONDS

Expired(e, t) == t - e.timestamp > CACHE_EXPIRATION_SECONDS

\* (mutant: the scan collects the entries of age 3600 s as well)
ExpiredIds_AtBoundary(cache, t) ==
    LET Old(e) == t - e.timestamp >= CACHE_EXPIRATION_SECONDS
        old == SelectSeq(cache, Old)
    IN [i \in DOMAIN old |-> old[i].file_id]

ExpiredIds(cache, t) ==
    LET Old(e) == Expired(e, t)
        old == SelectSeq(cache, Old)
    IN [i \in DOMAIN old |-> old[i].file_id]

\* (mutant: the file is left in place)
EvictRemove_KeepsFile(cache, fs, id) ==
    [exc |-> IF Has(cache, id) THEN "none" ELSE "KeyError", files |-> fs]

EvictRemove(cache, fs, id) ==
    IF ~Has(cache, id)
    THEN [exc |-> "KeyError", files |-> fs]
    ELSE [exc |-> "none", files |-> fs \ {Get(cache, id).path}]

\* (mutant: the entry is not deleted)
EvictDel_Forgotten(cache, id) == [exc |-> "none", cache |-> cache]

EvictDel(cache, id) ==
    IF ~Has(cache, id)
    THEN [exc |-> "KeyError", cache |-> cache]
    ELSE [exc |-> "none", cache |-> Del(cache, id)]

NoEvict == [pc |-> "off", id |-> NoId, exc |-> "none"]

\* ---- the initial state: the process has just started through the main
\* entry point (lines 144-150), which starts the cleanup thread; the thread's
\* first statement is time.sleep(600)
Init ==
    /\ TEMP_FILE_CACHE = <<>>
    /\ files = {}
    /\ now = 0
    /\ ci_pc = [c \in Creates |-> "idle"]
    /\ ci_resp = [c \in Creates |-> "none"]
    /\ ci_exc = [c \in Creates |-> "none"]
    /\ ad_pc = [d \in Derives |-> "idle"]
    /\ ad_file_id = [d \in Derives |-> NoId]
    /\ ad_quality = [d \in Derives |-> NoQuality]
    /\ ad_baseline_path = [d \in Derives |-> NoPath]
    /\ ad_resp = [d \in Derives |-> "none"]
    /\ ad_download_name = [d \in Derives |-> 0]
    /\ sw_pc = "sleep"
    /\ sw_now = 0
    /\ sw_wake_at = SLEEP_SECONDS
    /\ sw_scan_size = 0
    /\ sw_expired_ids = <<>>
    /\ sw_exc = "none"
    /\ ev = NoEvict
    /\ gr = NoCall

\* ---- compress_initial
CompressInitialStart(c) ==
    /\ ci_pc[c] = "idle"
    /\ \A b \in Creates : b < c => ci_pc[b] # "idle"
    /\ \E has_pdf \in BOOLEAN :
        IF has_pdf
        THEN /\ files' = files \cup {OriginalPath(c)}
             /\ ci_pc' = [ci_pc EXCEPT ![c] = "gs"]
             /\ UNCHANGED ci_resp
        ELSE /\ ci_pc' = [ci_pc EXCEPT ![c] = "done"]
             /\ ci_resp' = [ci_resp EXCEPT ![c] = "400"]
             /\ UNCHANGED files
    /\ UNCHANGED <<TEMP_FILE_CACHE, now, ci_exc, ad_vars, sw_vars, ev, gr>>

CompressInitialGs(c) ==
    /\ ci_pc[c] = "gs"
    /\ \E out \in GsOutcomes(files, OriginalPath(c)) :
        IF out = "ok"
        THEN /\ files' = files \cup {BaselinePath(c)}
             /\ ci_pc' = [ci_pc EXCEPT ![c] = "register"]
             /\ UNCHANGED <<ci_resp, ci_exc>>
        ELSE /\ \E left \in GsLeftovers(BaselinePath(c)) :
                    files' = FinallyOriginal(files \cup left, c)
             /\ ci_pc' = [ci_pc EXCEPT ![c] = "done"]
             /\ ci_resp' = [ci_resp EXCEPT ![c] = "500"]
             /\ ci_exc' = [ci_exc EXCEPT ![c] = out]
    /\ UNCHANGED <<TEMP_FILE_CACHE, now, ad_vars, sw_vars, ev, gr>>

CompressInitialRegister(c) ==
    /\ ci_pc[c] = "register"
    /\ TEMP_FILE_CACHE' = Put(TEMP_FILE_CACHE, FileId(c), BaselinePath(c), now)
    /\ ci_pc' = [ci_pc EXCEPT ![c] = "read"]
    /\ UNCHANGED <<files, now, ci_resp, ci_exc, ad_vars, sw_vars, ev, gr>>

CompressInitialRead(c) ==
    /\ ci_pc[c] = "read"
    /\ \E readable \in (IF BaselinePath(c) \in files THEN BOOLEAN ELSE {FALSE}) :
        /\ ci_resp' = [ci_resp EXCEPT ![c] = IF readable THEN "200" ELSE "500"]
        /\ ci_exc' = [ci_exc EXCEPT ![c] = IF readable THEN "none" ELSE "OSError"]
    /\ files' = FinallyOriginal(files, c)
    /\ ci_pc' = [ci_pc EXCEPT ![c] = "done"]
    /\ UNCHANGED <<TEMP_FILE_CACHE, now, ad_vars, sw_vars, ev, gr>>

\* ---- adjust_and_download
\* the handler returns: its locals go, the response stays with the client
AdjustReturn(d, resp, name) ==
    /\ ad_pc' = [ad_pc EXCEPT ![d] = "done"]
    /\ ad_resp' = [ad_resp EXCEPT ![d] = resp]
    /\ ad_download_name' = [ad_download_name EXCEPT ![d] = name]
    /\ ad_quality' = [ad_quality EXCEPT ![d] = NoQuality]
    /\ ad_baseline_path' = [ad_baseline_path EXCEPT ![d] = NoPath]

\* the file_id of a request body: the uuid string of a registration (Ids),
\* none or the empty string (NoId), or a JSON array or object, which Python
\* cannot hash
UnhashableId == -1
JsonFileIds == RequestIds \cup {UnhashableId}

\* line 101: not file_id or file_id not in TEMP_FILE_CACHE
IdTest(cache, file_id) ==
    IF file_id = NoId THEN "404"
    ELSE IF file_id = UnhashableId THEN "TypeError"
    ELSE IF ~Has(cache, file_id) THEN "404" ELSE "found"

\* lines 96-102, on a request whose file_id is one of ids
AdjustStartWith(d, ids) ==
    /\ ad_pc[d] = "idle"
    /\ \A b \in Derives : b < d => ad_pc[b] # "idle"
    /\ \E id \in ids, q \in Qualities :
        /\ ad_file_id' = [ad_file_id EXCEPT ![d] = id]
        /\ IF IdTest(TEMP_FILE_CACHE, id) # "found"
           THEN AdjustReturn(d, IdTest(TEMP_FILE_CACHE, id), 0)
           ELSE /\ ad_pc' = [ad_pc EXCEPT ![d] = "lookup"]
                /\ ad_quality' = [ad_quality EXCEPT ![d] = q]
                /\ UNCHANGED <<ad_resp, ad_download_name, ad_baseline_path>>
    /\ UNCHANGED <<TEMP_FILE_CACHE, files, now, ci_vars, sw_vars, ev, gr>>

\* the requests of Spec carry a uuid string, or no file_id
AdjustStart(d) == AdjustStartWith(d, RequestIds)

AdjustLookup(d) ==
    /\ ad_pc[d] = "lookup"
    /\ IF ~Has(TEMP_FILE_CACHE, ad_file_id[d])
       THEN AdjustReturn(d, "KeyError", 0)
       ELSE IF GsResolution(ad_quality[d]).exc # "none"
       THEN AdjustReturn(d, GsResolution(ad_quality[d]).exc, 0)
       ELSE /\ ad_baseline_path' =
                [ad_baseline_path EXCEPT ![d] = Get(TEMP_FILE_CACHE, ad_file_id[d]).path]
            /\ ad_pc' = [ad_pc EXCEPT ![d] = "gs"]
            /\ UNCHANGED <<ad_resp, ad_download_name, ad_quality>>
    /\ UNCHANGED <<TEMP_FILE_CACHE, files, now, ci_vars, ad_file_id, sw_vars, ev, gr>>

AdjustGs(d) ==
    /\ ad_pc[d] = "gs"
    /\ \E out \in GsOutcomes(files, ad_baseline_path[d]) :
        IF out = "ok"
        THEN /\ files' = files \cup {AdjustedPath(d)}
             /\ ad_pc' = [ad_pc EXCEPT ![d] = "send"]
             /\ UNCHANGED <<ad_resp, ad_download_name, ad_quality, ad_baseline_path>>
        ELSE /\ \E left \in GsLeftovers(AdjustedPath(d)) :
                    files' = FinallyAdjusted(files \cup left, d)
             /\ AdjustReturn(d, "500", 0)
    /\ UNCHANGED <<TEMP_FILE_CACHE, now, ci_vars, ad_file_id, sw_vars, ev, gr>>

AdjustSend(d) ==
    /\ ad_pc[d] = "send"
    /\ \E sent \in (IF AdjustedPath(d) \in files THEN BOOLEAN ELSE {FALSE}) :
        IF sent
        THEN AdjustReturn(d, "200", get_gs_resolution(ad_quality[d]))
        ELSE AdjustReturn(d, "500", 0)
    /\ files' = FinallyAdjusted(files, d)
    /\ UNCHANGED <<TEMP_FILE_CACHE, now, ci_vars, ad_file_id, sw_vars, ev, gr>>

\* ---- cleanup_expired_files
GoToSleep ==
    /\ sw_pc' = "sleep"
    /\ sw_wake_at' = now + SLEEP_SECONDS

SweeperWake ==
    /\ sw_pc = "sleep"
    /\ now >= sw_wake_at
    /\ sw_now' = now
    /\ sw_scan_size' = Len(TEMP_FILE_CACHE)
    /\ sw_pc' = "scan"
    /\ UNCHANGED <<TEMP_FILE_CACHE, files, now, ci_vars, ad_vars,
                   sw_wake_at, sw_expired_ids, sw_exc, ev, gr>>

SweeperScan ==
    /\ sw_pc = "scan"
    /\ IF Len(TEMP_FILE_CACHE) # sw_scan_size
       THEN /\ sw_pc' = "dead"
            /\ sw_exc' = "RuntimeError"
            /\ UNCHANGED <<sw_expired_ids, sw_wake_at>>
       ELSE /\ sw_expired_ids' = ExpiredIds(TEMP_FILE_CACHE, sw_now)
            /\ IF sw_expired_ids' = <<>>
               THEN GoToSleep
               ELSE /\ sw_pc' = "remove"
                    /\ UNCHANGED sw_wake_at
            /\ UNCHANGED sw_exc
    /\ sw_scan_size' = 0
    /\ UNCHANGED <<TEMP_FILE_CACHE, files, now, ci_vars, ad_vars, sw_now, ev, gr>>

SweeperRemove ==
    /\ sw_pc = "remove"
    /\ LET r == EvictRemove(TEMP_FILE_CACHE, files, Head(sw_expired_ids))
       IN \E raises \in (IF r.exc = "none" /\ r.files # files THEN BOOLEAN ELSE {FALSE}) :
            IF r.exc # "none" \/ raises
            THEN /\ sw_pc' = "dead"
                 /\ sw_exc' = IF raises THEN "OSError" ELSE r.exc
                 /\ UNCHANGED files
            ELSE /\ files' = r.files
                 /\ sw_pc' = "del"
                 /\ UNCHANGED sw_exc
    /\ UNCHANGED <<TEMP_FILE_CACHE, now, ci_vars, ad_vars,
                   sw_now, sw_wake_at, sw_scan_size, sw_expired_ids, ev, gr>>

SweeperDel ==
    /\ sw_pc = "del"
    /\ LET r == EvictDel(TEMP_FILE_CACHE, Head(sw_expired_ids))
       IN IF r.exc # "none"
          THEN /\ sw_pc' = "dead"
               /\ sw_exc' = r.exc
               /\ UNCHANGED <<TEMP_FILE_CACHE, sw_expired_ids, sw_wake_at>>
          ELSE /\ TEMP_FILE_CACHE' = r.cache
               /\ sw_expired_ids' = Tail(sw_expired_ids)
               /\ IF sw_expired_ids' = <<>>
                  THEN GoToSleep
                  ELSE /\ sw_pc' = "remove"
                       /\ UNCHANGED sw_wake_at
               /\ UNCHANGED sw_exc
    /\ UNCHANGED <<files, now, ci_vars, ad_vars, sw_now, sw_scan_size, ev, gr>>

\* ---- the clock
Tick ==
    /\ now < MaxTime
    /\ now' = now + ClockStep
    /\ UNCHANGED <<TEMP_FILE_CACHE, files, ci_vars, ad_vars, sw_vars, ev, gr>>

Next ==
    \/ \E c \in Creates : CompressInitialStart(c)
    \/ \E c \in Creates : CompressInitialGs(c)
    \/ \E c \in Creates : CompressInitialRegister(c)
    \/ \E c \in Creates : CompressInitialRead(c)
    \/ \E d \in Derives : AdjustStart(d)
    \/ \E d \in Derives : AdjustLookup(d)
    \/ \E d \in Derives : AdjustGs(d)
    \/ \E d \in Derives : AdjustSend(d)
    \/ SweeperWake
    \/ SweeperScan
    \/ SweeperRemove
    \/ SweeperDel
    \/ Tick

Spec == Init /\ [][Next]_vars

\* ---- the eviction step (lines 138-141) applied on its own, twice in a row,
\* to any id, in any state of the dict and of the baseline files
EvictTimes == {k * ClockStep : k \in 0..MaxTicks}

EvictCaches ==
    UNION {
        {[i \in 1..n |-> Entry(ks[i], BaselinePath(ks[i]), ts[i])] :
            ks \in {f \in [1..n -> Ids] : \A i, j \in 1..n : i # j => f[i] # f[j]},
            ts \in [1..n -> EvictTimes]} :
        n \in 0..NumCreate}

InitEvict ==
    /\ TEMP_FILE_CACHE \in EvictCaches
    /\ files \in SUBSET {BaselinePath(c) : c \in Creates}
    /\ now = MaxTime
    /\ ci_pc = [c \in Creates |-> "idle"]
    /\ ci_resp = [c \in Creates |-> "none"]
    /\ ci_exc = [c \in Creates |-> "none"]
    /\ ad_pc = [d \in Derives |-> "idle"]
    /\ ad_file_id = [d \in Derives |-> NoId]
    /\ ad_quality = [d \in Derives |-> NoQuality]
    /\ ad_baseline_path = [d \in Derives |-> NoPath]
    /\ ad_resp = [d \in Derives |-> "none"]
    /\ ad_download_name = [d \in Derives |-> 0]
    /\ sw_pc = "sleep"
    /\ sw_now = 0
    /\ sw_wake_at = SLEEP_SECONDS
    /\ sw_scan_size = 0
    /\ sw_expired_ids = <<>>
    /\ sw_exc = "none"
    /\ \E id \in Ids : ev = [pc |-> "remove1", id |-> id, exc |-> "none"]
    /\ gr = NoCall

EvictApplyRemove ==
    /\ ev.pc \in {"remove1", "remove2"}
    /\ LET r == EvictRemove(TEMP_FILE_CACHE, files, ev.id)
       IN /\ files' = r.files
          /\ ev' = IF r.exc # "none"
                   THEN [ev EXCEPT !.pc = "raised", !.exc = r.exc]
                   ELSE [ev EXCEPT !.pc = IF ev.pc = "remove1" THEN "del1" ELSE "del2"]
    /\ UNCHANGED <<TEMP_FILE_CACHE, now, ci_vars, ad_vars, sw_vars, gr>>

EvictApplyDel ==
    /\ ev.pc \in {"del1", "del2"}
    /\ LET r == EvictDel(TEMP_FILE_CACHE, ev.id)
       IN /\ TEMP_FILE_CACHE' = r.cache
          /\ ev' = IF r.exc # "none"
                   THEN [ev EXCEPT !.pc = "raised", !.exc = r.exc]
                   ELSE [ev EXCEPT !.pc = IF ev.pc = "del1" THEN "remove2" ELSE "done"]
    /\ UNCHANGED <<files, now, ci_vars, ad_vars, sw_vars, gr>>

NextEvict == EvictApplyRemove \/ EvictApplyDel

SpecEvict == InitEvict /\ [][NextEvict]_vars

\* ---- what the claims are stated with
\* call c has executed TEMP_FILE_CACHE[file_id] = {...} (line 72)
Registered(c) ==
    \/ ci_pc[c] = "read"
    \/ ci_pc[c] = "done" /\ (ci_resp[c] = "200" \/ ci_exc[c] = "OSError")

CreateFailed(c) == ci_pc[c] = "done" /\ ci_resp[c] = "500"

TransformFailed(c) == ci_exc[c] \in {"CalledProcessError", "TimeoutExpired"}

\* C1: every id in the mapping has a baseline file that exists in storage.
\* (stated as the claim states it; the sweeper breaks it between os.remove
\* and del)
C1_EveryEntryHasStorage ==
    \A i \in DOMAIN TEMP_FILE_CACHE : TEMP_FILE_CACHE[i].path \in files

\* C2: from the moment a Derive has read the entry's path until its transform
\* has completed, the baseline file at that path exists.
C2_DeriveStorageNotReleased ==
    \A d \in Derives : ad_pc[d] = "gs" => ad_baseline_path[d] \in files

\* C3: a CreateBaseline that ended with a failure response left no entry for
\* its id in the mapping.
C3_FailureRegistersNothing ==
    \A c \in Creates : CreateFailed(c) => ~Has(TEMP_FILE_CACHE, FileId(c))

\* C4: a CreateBaseline that ended with a failure response of the transform
\* left no partially produced baseline file in storage.
C4_FailureLeavesNoBaseline ==
    \A c \in Creates :
        CreateFailed(c) /\ TransformFailed(c) => BaselinePath(c) \notin files

\* C5: when a CreateBaseline that persisted the raw upload has returned, by
\* whatever exit path, the scratch copy of the upload no longer exists.
C5_ScratchReleased ==
    \A c \in Creates :
        ci_pc[c] = "done" /\ ci_resp[c] # "400" => OriginalPath(c) \notin files

\* both calls persisted their upload and have returned, one with success and
\* one from the except clause
C5_Witness ==
    /\ \E c \in Creates : ci_pc[c] = "done" /\ ci_resp[c] = "200"
    /\ \E c \in Creates : CreateFailed(c) /\ ci_exc[c] = "TimeoutExpired"
    /\ \A c \in Creates : OriginalPath(c) \notin files

\* C6: when a Derive that passed the lookup has returned, by whatever exit
\* path, its transient output file no longer exists.
C6_TransientReleased ==
    \A d \in Derives :
        ad_pc[d] = "done" /\ ad_resp[d] # "404" => AdjustedPath(d) \notin files

\* one call returned the download and one returned from the except clause
C6_Witness ==
    /\ \E d \in Derives : ad_pc[d] = "done" /\ ad_resp[d] = "200"
    /\ \E d \in Derives : ad_pc[d] = "done" /\ ad_resp[d] = "500"
    /\ \A d \in Derives : AdjustedPath(d) \notin files

\* ---- get_gs_resolution called on its own, on every kind of selector
MaxSelector == 12

QualityInputs ==
    {QInt(n) : n \in -MaxSelector..MaxSelector}
        \cup {QStr(n) : n \in -MaxSelector..MaxSelector}
        \cup {QFloat(h) : h \in (-2 * MaxSelector)..(2 * MaxSelector)}
        \cup {QBool(0), QBool(1), QInf, QNan, QText, QNull, QList, QMissing}

\* no request in flight, the cleanup thread in its first sleep
ThreadsAtStart ==
    /\ ci_pc = [c \in Creates |-> "idle"]
    /\ ci_resp = [c \in Creates |-> "none"]
    /\ ci_exc = [c \in Creates |-> "none"]
    /\ ad_pc = [d \in Derives |-> "idle"]
    /\ ad_file_id = [d \in Derives |-> NoId]
    /\ ad_quality = [d \in Derives |-> NoQuality]
    /\ ad_baseline_path = [d \in Derives |-> NoPath]
    /\ ad_resp = [d \in Derives |-> "none"]
    /\ ad_download_name = [d \in Derives |-> 0]
    /\ sw_pc = "sleep"
    /\ sw_now = 0
    /\ sw_wake_at = SLEEP_SECONDS
    /\ sw_scan_size = 0
    /\ sw_expired_ids = <<>>
    /\ sw_exc = "none"

InitQuality ==
    /\ TEMP_FILE_CACHE = <<>>
    /\ files = {}
    /\ now = 0
    /\ ThreadsAtStart
    /\ ev = NoEvict
    /\ \E qv \in QualityInputs :
            gr = [pc |-> "call", quality_value |-> qv, exc |-> "none", val |-> 0]

ResolveQuality ==
    /\ gr.pc = "call"
    /\ LET r == GsResolution(gr.quality_value)
       IN gr' = [gr EXCEPT !.pc = IF r.exc = "none" THEN "returned" ELSE "raised",
                           !.exc = r.exc, !.val = r.val]
    /\ UNCHANGED <<TEMP_FILE_CACHE, files, now, ci_vars, ad_vars, sw_vars, ev>>

NextQuality == ResolveQuality

SpecQuality == InitQuality /\ [][NextQuality]_vars

\* ---- C11
\* the selector's value, in halves, when it is a number or a numeric string
IsNumber(qv) == qv.kind \in {"int", "str", "float", "inf"}

Halves(qv) == IF qv.kind = "float" THEN qv.val ELSE 2 * qv.val

IsSelector(qv) ==
    /\ qv.kind \in {"int", "str", "float"}
    /\ \E n \in 1..10 : Halves(qv) = 2 * n

OutOfRange(qv) ==
    \/ qv.kind = "inf"
    \/ qv.kind \in {"int", "str", "float"} /\ (Halves(qv) < 2 \/ Halves(qv) > 20)

NonNumeric(qv) == qv.kind \in {"text", "null", "list", "nan"}

TierTable == <<72, 96, 120, 150, 200, 250, 300, 400, 500, 600>>

\* C11: get_gs_resolution never raises; for a selector 1..10 it returns the
\* tier table's resolution; for an out-of-range or non-numeric selector
\* (a missing one is the default '7') it returns 300.
C11_TierTableAndDefault ==
    gr.pc \in {"returned", "raised"} =>
        /\ gr.pc = "returned"
        /\ IsSelector(gr.quality_value)
                => gr.val = TierTable[Halves(gr.quality_value) \div 2]
        /\ OutOfRange(gr.quality_value) \/ NonNumeric(gr.quality_value)
                => gr.val = 300

\* ---- C7
SameEntryWhilePresent ==
    \A id \in Ids :
        Has(TEMP_FILE_CACHE, id) /\ Has(TEMP_FILE_CACHE', id)
            => Get(TEMP_FILE_CACHE', id) = Get(TEMP_FILE_CACHE, id)

EvictedStaysAbsent ==
    \A c \in Creates :
        Registered(c) /\ ~Has(TEMP_FILE_CACHE, FileId(c))
            => ~Has(TEMP_FILE_CACHE', FileId(c))

\* the step of call d that performs the membership test of line 101
MembershipTest(d) == ad_pc[d] = "idle" /\ ad_pc'[d] # "idle"

LookupIsMembership ==
    \A d \in Derives :
        MembershipTest(d)
            => (ad_resp'[d] = "404" <=> ~Has(TEMP_FILE_CACHE, ad_file_id'[d]))

ExpiredIsNotFound ==
    \A d \in Derives :
        ( /\ MembershipTest(d)
          /\ Has(TEMP_FILE_CACHE, ad_file_id'[d])
          /\ now - Get(TEMP_FILE_CACHE, ad_file_id'[d]).timestamp
                > CACHE_EXPIRATION_SECONDS )
            => ad_resp'[d] = "404"

RemovedOnlyByEvictionAfterTtl ==
    \A id \in Ids :
        Has(TEMP_FILE_CACHE, id) /\ ~Has(TEMP_FILE_CACHE', id)
            => /\ sw_pc = "del"
               /\ Head(sw_expired_ids) = id
               /\ sw_now - Get(TEMP_FILE_CACHE, id).timestamp > CACHE_EXPIRATION_SECONDS

\* C7 as stated: a registered entry stays the same while it is in the mapping;
\* once it has been evicted the membership test of Derive reports NotFound;
\* and once its TTL has elapsed the membership test reports NotFound.
C7_NotFoundAfterTtlOrEviction ==
    [][SameEntryWhilePresent /\ EvictedStaysAbsent /\ LookupIsMembership
        /\ ExpiredIsNotFound]_vars

\* C7 as amended: a registered entry stays the same until it is evicted; it
\* leaves the mapping only by the sweeper's eviction, in a pass whose scan
\* found it older than the TTL; once evicted, the membership test of Derive
\* reports NotFound for it from then on; the membership test reports NotFound
\* exactly when the id is not in the mapping, whatever the entry's age.
C7_NotFoundAfterEviction ==
    [][SameEntryWhilePresent /\ RemovedOnlyByEvictionAfterTtl
        /\ EvictedStaysAbsent /\ LookupIsMembership]_vars

\* the first Derive found the entry, the entry was then evicted, and the
\* second Derive of the same id got the invalid-handle response
C7_Witness ==
    /\ ad_pc[1] = "done" /\ ad_resp[1] = "200"
    /\ ad_pc[2] = "done" /\ ad_resp[2] = "404"
    /\ ad_file_id[1] = ad_file_id[2]
    /\ \E c \in Creates : FileId(c) = ad_file_id[2] /\ Registered(c)
    /\ ~Has(TEMP_FILE_CACHE, ad_file_id[2])

\* ---- C8
NoEntryOlderThanLastPass ==
    sw_pc = "sleep" =>
        \A i \in DOMAIN TEMP_FILE_CACHE :
            ~(sw_now > TEMP_FILE_CACHE[i].timestamp + CACHE_EXPIRATION_SECONDS)

\* C8: when a sweep pass has completed (the sweeper is back in its sleep),
\* no entry registered at a time T with T + TTL earlier than the start of
\* that pass is in the mapping; an id that left the mapping stays out, and
\* Derive of an id that is not in the mapping reports the invalid handle.
C8_GoneAfterSweepPastTtl ==
    /\ []NoEntryOlderThanLastPass
    /\ [][EvictedStaysAbsent /\ LookupIsMembership]_vars

\* a pass that started after T + TTL has completed, the entry it evicted was
\* retrievable before (first Derive) and is reported invalid after (second)
C8_Witness ==
    /\ sw_pc = "sleep" /\ sw_now > CACHE_EXPIRATION_SECONDS
    /\ ad_resp[1] = "200" /\ ad_resp[2] = "404"
    /\ ad_file_id[1] = ad_file_id[2]
    /\ ~Has(TEMP_FILE_CACHE, ad_file_id[2])
    /\ TEMP_FILE_CACHE # <<>>

ValidEntry(id) ==
    /\ Has(TEMP_FILE_CACHE, id)
    /\ now - Get(TEMP_FILE_CACHE, id).timestamp <= CACHE_EXPIRATION_SECONDS

DeriveOnValidEntry ==
    \A d \in Derives :
        ValidEntry(ad_file_id[d]) =>
            /\ ad_pc[d] = "gs" =>
                    /\ ad_baseline_path[d] = Get(TEMP_FILE_CACHE, ad_file_id[d]).path
                    /\ ad_baseline_path[d] \in files
            /\ ad_pc[d] = "send" => AdjustedPath(d) \in files
            /\ ad_pc[d] = "done" =>
                    /\ ad_resp[d] # "KeyError"
                    /\ AdjustedPath(d) \notin files

DeriveFailsOnlyByItself ==
    \A d \in Derives :
        /\ MembershipTest(d) /\ ValidEntry(ad_file_id'[d]) => ad_pc'[d] = "lookup"
        /\ ad_pc[d] = "lookup" /\ ValidEntry(ad_file_id[d]) => ad_pc'[d] # "done"
        /\ ( /\ ValidEntry(ad_file_id[d])
             /\ ad_pc[d] \in {"gs", "send"}
             /\ ad_pc'[d] = "done" )
                => \/ ad_resp'[d] = "200"
                   \/ /\ ad_resp'[d] = "500"
                      /\ ad_pc[d] = "gs" => ad_baseline_path[d] \in files
                      /\ ad_pc[d] = "send" => AdjustedPath(d) \in files

\* C10: concurrent Derive calls on one id whose entry is in the mapping and
\* not expired never get the invalid-handle response or an unhandled error;
\* each transform runs on the existing baseline file and each call's output
\* is there when the call sends it, whatever the other calls do; a call ends
\* with a failure only when its own transform or its own response fails;
\* and a call that has returned has left no transient output.
C10_ConcurrentDerivesIndependent ==
    /\ []DeriveOnValidEntry
    /\ [][DeriveFailsOnlyByItself]_vars

\* two calls on the same valid id, with different quality selectors, hold
\* their two outputs at the same time
C10_Witness ==
    /\ ad_pc[1] = "send" /\ ad_pc[2] = "send"
    /\ ad_file_id[1] = ad_file_id[2]
    /\ ad_quality[1] # ad_quality[2]
    /\ ValidEntry(ad_file_id[1])
    /\ {AdjustedPath(1), AdjustedPath(2)} \subseteq files

\* ---- lines 96-102 on their own: a request with any file_id, arriving in
\* any state of the dict and of the baseline files
InitRequest ==
    /\ TEMP_FILE_CACHE \in EvictCaches
    /\ files \in SUBSET {BaselinePath(c) : c \in Creates}
    /\ now = MaxTime
    /\ ThreadsAtStart
    /\ ev = NoEvict
    /\ gr = NoCall

NextRequest == \E d \in Derives : AdjustStartWith(d, JsonFileIds)

SpecRequest == InitRequest /\ [][NextRequest]_vars

\* ---- C12
AbsentIdIsInvalidHandle ==
    \A d \in Derives :
        MembershipTest(d) /\ ~Has(TEMP_FILE_CACHE, ad_file_id'[d])
            => /\ ad_pc'[d] = "done"
               /\ ad_resp'[d] = "404"
               /\ TEMP_FILE_CACHE' = TEMP_FILE_CACHE
               /\ files' = files

\* C12: a Derive whose id is not in the mapping returns the invalid-handle
\* response at once (no transform is run, no transient file is made) and
\* leaves the mapping and the stored files as they were.
C12_AbsentIdRejected == [][AbsentIdIsInvalidHandle]_vars

\* ---- C13
\* C13: the response of a CreateBaseline whose transform timed out differs
\* from the response of one whose transform exited with a non-zero status.
\* (ci_resp is the whole response: the except clause of lines 85-87 has one
\* return statement, with one body and one status)
C13_TimeoutReportedDistinctly ==
    \A c1, c2 \in Creates :
        ( /\ ci_pc[c1] = "done" /\ ci_exc[c1] = "TimeoutExpired"
          /\ ci_pc[c2] = "done" /\ ci_exc[c2] = "CalledProcessError" )
            => ci_resp[c1] # ci_resp[c2]

\* ---- C14
\* C14: a delete of an expired entry's file that raises does not abort the
\* sweep pass: the sweeper thread does not end with ids it collected still
\* to be evicted.  (A file that is already missing is skipped by the
\* os.path.exists test of line 139; a raising os.remove is not caught.)
C14_DeleteFailureDoesNotAbortPass ==
    ~(sw_pc = "dead" /\ sw_exc = "OSError" /\ sw_expired_ids # <<>>)

\* ---- C15
\* a step of a Derive call
DeriveStep == ad_pc' # ad_pc

BaselinePaths ==
    {BaselinePath(c) : c \in Creates}
        \cup {TEMP_FILE_CACHE[i].path : i \in DOMAIN TEMP_FILE_CACHE}

DeriveLeavesCacheAlone ==
    DeriveStep =>
        /\ TEMP_FILE_CACHE' = TEMP_FILE_CACHE
        /\ files' \cap BaselinePaths = files \cap BaselinePaths

OutputPathIsNew == \A d \in Derives : AdjustedPath(d) \notin BaselinePaths

\* C15: no step of a Derive changes the mapping (keys, paths, timestamps)
\* or creates or deletes a baseline file, and the output path of a Derive is
\* never the path of a baseline.
C15_DeriveReadOnly ==
    /\ []OutputPathIsNew
    /\ [][DeriveLeavesCacheAlone]_vars

\* two Derive calls on one id have returned their downloads and the entry
\* and its file are still there
C15_Witness ==
    /\ ad_pc[1] = "done" /\ ad_resp[1] = "200"
    /\ ad_pc[2] = "done" /\ ad_resp[2] = "200"
    /\ ad_file_id[1] = ad_file_id[2]
    /\ Has(TEMP_FILE_CACHE, ad_file_id[1])
    /\ Get(TEMP_FILE_CACHE, ad_file_id[1]).path \in files
    /\ ad_download_name[1] # ad_download_name[2]

\* ---- the same program under the scheduling the platform provides: every
\* thread that can take a step is eventually run, and time passes
FairSpec ==
    /\ Spec
    /\ \A c \in Creates :
            /\ WF_vars(CompressInitialGs(c))
            /\ WF_vars(CompressInitialRegister(c))
            /\ WF_vars(CompressInitialRead(c))
    /\ \A d \in Derives :
            /\ WF_vars(AdjustLookup(d))
            /\ WF_vars(AdjustGs(d))
            /\ WF_vars(AdjustSend(d))
    /\ WF_vars(SweeperWake)
    /\ WF_vars(SweeperScan)
    /\ WF_vars(SweeperRemove)
    /\ WF_vars(SweeperDel)
    /\ WF_vars(Tick)

\* ---- C16
\* the entry of call c is in the mapping and its expiration time lies
\* before the last reading of the model's clock
InCacheToExpire(c) ==
    /\ Has(TEMP_FILE_CACHE, FileId(c))
    /\ Get(TEMP_FILE_CACHE, FileId(c)).timestamp + CACHE_EXPIRATION_SECONDS < MaxTime

Evicted(c) ==
    /\ ~Has(TEMP_FILE_CACHE, FileId(c))
    /\ BaselinePath(c) \notin files

\* C16: with every thread scheduled and time passing, every entry placed in
\* the mapping is eventually evicted: its id is absent from the mapping and
\* its baseline file is deleted.
C16_EveryEntryEventuallyEvicted ==
    \A c \in Creates : InCacheToExpire(c) ~> Evicted(c)

\* ---- C17
\* C17: an insertion by CreateBaseline while the sweeper enumerates the
\* mapping does not make the scan fail: the sweeper thread never ends with
\* the error of the enumeration.
C17_ScanSafeAgainstRegister ==
    ~(sw_pc = "dead" /\ sw_exc = "RuntimeError")

\* ---- C18
\* C18: a Derive never ends with the unhandled error of reading the entry
\* of an id that passed the membership test and was removed before the read.
C18_LookupLinearized ==
    \A d \in Derives : ~(ad_pc[d] = "done" /\ ad_resp[d] = "KeyError")

\* ---- C19
\* the entry of id, which must be in the mapping, was older than the
\* expiration time when the running pass read the clock (line 130)
ExpiredAtScan(id) ==
    sw_now - Get(TEMP_FILE_CACHE, id).timestamp > CACHE_EXPIRATION_SECONDS

EvictsOnlyExpired ==
    \A id \in Ids :
        /\ Has(TEMP_FILE_CACHE, id) /\ ~Has(TEMP_FILE_CACHE', id)
                => sw_pc \in {"remove", "del"} /\ ExpiredAtScan(id)
        /\ ( /\ Has(TEMP_FILE_CACHE, id)
             /\ Get(TEMP_FILE_CACHE, id).path \in files
             /\ Get(TEMP_FILE_CACHE, id).path \notin files' )
                => sw_pc \in {"remove", "del"} /\ ExpiredAtScan(id)

CollectedAreExpired ==
    \A i \in DOMAIN sw_expired_ids :
        Has(TEMP_FILE_CACHE, sw_expired_ids[i]) => ExpiredAtScan(sw_expired_ids[i])

UnexpiredRetrievable ==
    \A i \in DOMAIN TEMP_FILE_CACHE :
        now - TEMP_FILE_CACHE[i].timestamp <= CACHE_EXPIRATION_SECONDS
            => TEMP_FILE_CACHE[i].path \in files

\* C19: the sweeper takes an entry out of the mapping, or deletes the file
\* of an entry, only when the entry's age at the pass's reading of the clock
\* was strictly greater than 3600 s; an entry whose age is at most 3600 s is
\* not among the collected ids and keeps its file.
C19_EvictsOnlyExpired ==
    /\ [](CollectedAreExpired /\ UnexpiredRetrievable)
    /\ [][EvictsOnlyExpired]_vars

\* a pass has evicted the entry that was older than 3600 s and has left the
\* one of age exactly 3600 s, which still has its file
C19_Witness ==
    /\ sw_pc = "sleep" /\ sw_now = now
    /\ \E c \in Creates : Registered(c) /\ Evicted(c)
    /\ \E c \in Creates :
            /\ Has(TEMP_FILE_CACHE, FileId(c))
            /\ now - Get(TEMP_FILE_CACHE, FileId(c)).timestamp = CACHE_EXPIRATION_SECONDS
            /\ BaselinePath(c) \in files

\* ---- C20
FileGoneBeforeRemoval ==
    \A id \in Ids :
        Has(TEMP_FILE_CACHE, id) /\ ~Has(TEMP_FILE_CACHE', id)
            => /\ Get(TEMP_FILE_CACHE, id).path \notin files
               /\ Get(TEMP_FILE_CACHE, id).path \notin files'

RemovedHaveNoFile ==
    \A c \in Creates :
        Registered(c) /\ ~Has(TEMP_FILE_CACHE, FileId(c)) => BaselinePath(c) \notin files

\* C20: when the sweeper takes an id out of the mapping the entry's baseline
\* file has already been deleted, and in every state an id that was
\* registered and is no longer in the mapping has no baseline file.
C20_EvictionNeverLeaks ==
    /\ []RemovedHaveNoFile
    /\ [][FileGoneBeforeRemoval]_vars

\* one pass has evicted both entries: the mapping is empty and no baseline
\* file is left
C20_Witness ==
    /\ sw_pc = "sleep"
    /\ TEMP_FILE_CACHE = <<>>
    /\ \A c \in Creates : Registered(c) /\ ci_resp[c] = "200" /\ Evicted(c)

====
